---- MODULE Spec2Model ----
(***************************************************************************)
(* WeatherPredictor (code/xgb_shap_parted_model.ipynb): prepare_data,      *)
(* predict and calculate_global_shap, with the pandas / scipy / xgboost /  *)
(* shap calls they make modelled by what those calls do to the data.       *)
(***************************************************************************)
EXTENDS Integers, Sequences, FiniteSets, TLC

\* Largest number of rows of an input DataFrame.
MaxRows == 4
\* TEMP values of an input row range over 0..MaxTemp.
MaxTemp == 1
\* Per-row SHAP values of a fitted model range over -MaxShap..MaxShap.
MaxShap == 1

Range(s) == {s[i] : i \in 1..Len(s)}

RECURSIVE SeqsUpTo(_, _)
\* All sequences over S of length at most n.
SeqsUpTo(S, n) ==
    IF n = 0 THEN {<<>>}
    ELSE LET shorter == SeqsUpTo(S, n - 1)
         IN  shorter \cup {Append(s, v) : s \in {t \in shorter : Len(t) = n - 1}, v \in S}

(***************************************************************************)
(* Exceptions.  An exception is its Python class, its message and the      *)
(* names the message lists.                                                *)
(***************************************************************************)
NoError == [cls |-> "", msg |-> "", names |-> {}]

KeyError(msg, names) == [cls |-> "KeyError", msg |-> msg, names |-> names]

ValueError(msg) == [cls |-> "ValueError", msg |-> msg, names |-> {}]

(***************************************************************************)
(* pandas DataFrames.  A frame is its column index (ordered), the dtype of *)
(* each column and its rows in order, a row being a function from column   *)
(* name to value.                                                          *)
(***************************************************************************)
\* Column order of the frames generate_temperature_data builds.
AllColumns == <<"DATE", "TEMP", "LOCATION", "HOUR_OF_DAY">>

NoFrame == [columns |-> <<>>, dtypes |-> <<>>, rows |-> <<>>]

\* dtype generate_temperature_data gives a column (TEMP may arrive as text).
dtype_of(c, temp_dtype) ==
    CASE c = "DATE" -> "datetime64"
      [] c = "TEMP" -> temp_dtype
      [] c = "LOCATION" -> "object"
      [] OTHER -> "int64"

\* The frame of one location: row i is hour i-1 after the start date.
DataFrame(present, temp_dtype, temps) ==
    [columns |-> SelectSeq(AllColumns, LAMBDA c : c \in present),
     dtypes  |-> [c \in present |-> dtype_of(c, temp_dtype)],
     rows    |-> [i \in 1..Len(temps) |->
                    [c \in present |->
                        CASE c = "DATE" -> i - 1
                          [] c = "TEMP" -> temps[i]
                          [] c = "LOCATION" -> "New York"
                          [] OTHER -> (i - 1) % 24]]]

is_numeric_dtype(d) == d \in {"int64", "float64"}

\* df[col].to_numpy()
to_numpy(df, col) == [i \in 1..Len(df.rows) |-> df.rows[i][col]]

(***************************************************************************)
(* Objects.  A heap is a sequence of frames and a reference an index into  *)
(* it, so that a copy is a new object and an assignment through a          *)
(* reference is seen by every holder of that reference.                    *)
(***************************************************************************)
\* df.copy(): a new object with the same contents.
copy(heap, ref) == [heap |-> Append(heap, heap[ref]), ref |-> Len(heap) + 1]

\* df.iloc[start:]: a new frame object holding the rows from position start on.
iloc_from(heap, ref, start) ==
    [heap |-> Append(heap, [heap[ref] EXCEPT
                                !.rows = SubSeq(@, start + 1, Len(@))]),
     ref  |-> Len(heap) + 1]

\* The frame df with column col set to values (appended last when new).
with_column(df, col, dtype, values) ==
    [columns |-> IF col \in Range(df.columns) THEN df.columns
                 ELSE Append(df.columns, col),
     dtypes  |-> [c \in DOMAIN df.dtypes \cup {col} |->
                    IF c = col THEN dtype ELSE df.dtypes[c]],
     rows    |-> [i \in 1..Len(df.rows) |->
                    [c \in DOMAIN df.rows[i] \cup {col} |->
                        IF c = col THEN values[i] ELSE df.rows[i][c]]]]

\* df[col] = values, in place; pandas raises when the lengths differ.
setitem(heap, ref, col, dtype, values) ==
    IF Len(values) # Len(heap[ref].rows)
    THEN [heap |-> heap,
          err  |-> ValueError("Length of values does not match length of index")]
    ELSE [heap |-> [heap EXCEPT ![ref] = with_column(@, col, dtype, values)],
          err  |-> NoError]

(***************************************************************************)
(* scipy.fft.fft and np.abs, exactly.  With w = exp(-2 pi i / n), bin k of *)
(* the transform of x is  SUM_j x[j] w^(j k);  it is kept as its           *)
(* coefficients on 1, w, .., w^(n-1).  The magnitude |z| of a bin with     *)
(* coefficients c is kept as the coefficients r of its square,             *)
(*   |z|^2 = SUM_d r[d] cos(2 pi d / n),  r[d] = SUM_m c[m] c[(m+d) % n].  *)
(***************************************************************************)
RECURSIVE bin_coefficient(_, _, _, _)
bin_coefficient(x, k, m, j) ==
    IF j = Len(x) THEN 0
    ELSE (IF (j * k) % Len(x) = m THEN x[j + 1] ELSE 0)
         + bin_coefficient(x, k, m, j + 1)

\* fft(x): element k+1 is frequency bin k (element 1 is the DC component).
fft(x) ==
    [k \in 1..Len(x) |->
        [m \in 0..(Len(x) - 1) |-> bin_coefficient(x, k - 1, m, 0)]]

RECURSIVE autocorrelation(_, _, _)
autocorrelation(c, d, m) ==
    LET n == Cardinality(DOMAIN c)
    IN  IF m = n THEN 0
        ELSE c[m] * c[(m + d) % n] + autocorrelation(c, d, m + 1)

\* np.abs of an array of complex bins.
np_abs(z) ==
    [k \in 1..Len(z) |->
        [d \in DOMAIN z[k] |-> autocorrelation(z[k], d, 0)]]

(***************************************************************************)
(* WeatherPredictor.prepare_data                                           *)
(***************************************************************************)
\* A faulty variant, for comparison: only TEMP is required.
required_columns_temp_only == {"TEMP"}

required_columns == {"TEMP", "HOUR_OF_DAY"}

raised(heap, err) == [heap |-> heap, outcome |-> "raised", err |-> err, ret |-> 0]

returned(heap, ref) ==
    [heap |-> heap, outcome |-> "returned", err |-> NoError, ret |-> ref]

\* A faulty variant, for comparison: the DC component is kept and the last bin dropped.
spectrum_keeping_dc(fft_values) == SubSeq(fft_values, 1, Len(fft_values) - 1)

\* fft_values[1:]
spectrum_without_dc(fft_values) == SubSeq(fft_values, 2, Len(fft_values))

\* A faulty variant, for comparison: no copies are taken; the first row is dropped from, and the
\* column attached to, the frame the caller passed.
prepare_data_in_place(heap, input) ==
    LET frame == heap[input]
        cols  == Range(frame.columns)
    IN  IF ~(required_columns \subseteq cols)
        THEN raised(heap, KeyError("Missing required columns", required_columns \ cols))
        ELSE IF ~is_numeric_dtype(frame.dtypes["TEMP"])
        THEN raised(heap, ValueError("'TEMP' column must be numeric."))
        ELSE IF Len(frame.rows) = 0
        THEN raised(heap, ValueError("invalid number of data points (0) specified"))
        ELSE LET fft_values == fft(to_numpy(frame, "TEMP"))
                 dropped == [heap EXCEPT ![input].rows = Tail(@)]
                 set == setitem(dropped, input, "TEMP_FFT", "float64",
                                np_abs(spectrum_without_dc(fft_values)))
             IN  IF set.err # NoError THEN raised(set.heap, set.err)
                 ELSE returned(set.heap, input)

\* prepare_data(self, input): heap holds the caller's objects and input is the
\* reference passed.  The result is the heap after the call and what the call
\* returned (a reference) or raised.
prepare_data(heap, input) ==
    LET frame == heap[input]
        cols  == Range(frame.columns)
    IN  IF ~(required_columns \subseteq cols)
        THEN raised(heap, KeyError("Missing required columns", required_columns \ cols))
        ELSE IF ~is_numeric_dtype(frame.dtypes["TEMP"])
        THEN raised(heap, ValueError("'TEMP' column must be numeric."))
        ELSE LET input1 == copy(heap, input)
                 temp_array == to_numpy(input1.heap[input1.ref], "TEMP")
             IN  IF Len(temp_array) = 0
                 THEN raised(input1.heap,
                             ValueError("invalid number of data points (0) specified"))
                 ELSE LET fft_values == fft(temp_array)
                          sliced == iloc_from(input1.heap, input1.ref, 1)
                          input2 == copy(sliced.heap, sliced.ref)
                          set == setitem(input2.heap, input2.ref, "TEMP_FFT", "float64",
                                         np_abs(spectrum_without_dc(fft_values)))
                      IN  IF set.err # NoError THEN raised(set.heap, set.err)
                          ELSE returned(set.heap, input2.ref)

(***************************************************************************)
(* WeatherPredictor.predict                                                *)
(***************************************************************************)
columns_of(df) == Range(df.columns)

\* df.drop(columns=cols), all of cols being columns of df.
drop(df, cols) ==
    [columns |-> SelectSeq(df.columns, LAMBDA c : c \notin cols),
     dtypes  |-> [c \in DOMAIN df.dtypes \ cols |-> df.dtypes[c]],
     rows    |-> [i \in 1..Len(df.rows) |->
                    [c \in DOMAIN df.rows[i] \ cols |-> df.rows[i][c]]]]

\* df[names], all of names being columns of df: those columns in that order.
select(df, names) ==
    [columns |-> names,
     dtypes  |-> [c \in Range(names) |-> df.dtypes[c]],
     rows    |-> [i \in 1..Len(df.rows) |->
                    [c \in Range(names) |-> df.rows[i][c]]]]

\* df[col] = df[col].astype(dtype)
astype(df, col, dtype) == [df EXCEPT !.dtypes[col] = dtype]

\* What training leaves in the trees, as far as the explainer reads it: for
\* each feature the size of its contribution to a prediction and whether the
\* contribution changes sign with the row (here: with the parity of the hour).
Leaves == {l \in [mag : 0..MaxShap, alt : BOOLEAN] : l.mag > 0 \/ ~l.alt}

\* Whether column f of X takes more than one value.
varies(X, f) == \E i, j \in 1..Len(X.rows) : X.rows[i][f] # X.rows[j][f]

\* The trees xgboost may learn from X: a tree splits only on a feature that
\* takes more than one value in X, and a feature no tree splits on contributes
\* nothing.
Boosters(X) ==
    {b \in [columns_of(X) -> Leaves] :
        \A f \in columns_of(X) : ~varies(X, f) => b[f].mag = 0}

\* xgb.XGBRegressor(objective='reg:squarederror', n_estimators=100,
\* enable_categorical=True).fit(X, y), the training having learnt booster.
\* fit_X and fit_y record what the model was fitted on.
XGBRegressor_fit(X, y, booster) ==
    [objective |-> "reg:squarederror", n_estimators |-> 100,
     enable_categorical |-> TRUE,
     fit_X |-> X, fit_y |-> y, booster |-> booster]

\* xgb_model.predict(X) on the rows the model was fitted on: 100 boosting
\* rounds on rows that differ in HOUR_OF_DAY reproduce the training target.
xgb_predict(xgb_model, X) == xgb_model.fit_y

\* An instance's attributes: a function from the names set so far.
NoAttributes == <<>>

hasattr(self, name) == name \in DOMAIN self

setattr(self, name, value) ==
    [a \in DOMAIN self \cup {name} |-> IF a = name THEN value ELSE self[a]]

\* A faulty variant, for comparison: the feature matrix is saved by the first predict only.
retain_first_matrix(self, xgb_model, X) ==
    setattr(setattr(self, "xgb_model", xgb_model), "X",
            IF hasattr(self, "X") THEN self["X"] ELSE X)

\* self.xgb_model = xgb_model; self.X = X
retain(self, xgb_model, X) ==
    setattr(setattr(self, "xgb_model", xgb_model), "X", X)

prediction_columns == <<"DATE", "LOCATION", "HOUR_OF_DAY", "TEMP", "PREDICTED_TEMP">>

\* predict up to the call of fit: the prepared frame, X and y, or the error.
training_set(input) ==
    LET p == prepare_data(<<input>>, 1)
    IN  IF p.outcome = "raised"
        THEN [outcome |-> "raised", err |-> p.err,
              prepared_data |-> NoFrame, X |-> NoFrame, y |-> <<>>]
        ELSE LET prepared_data == p.heap[p.ret]
                 absent == {"TEMP", "DATE"} \ columns_of(prepared_data)
             IN  IF absent # {}
                 THEN [outcome |-> "raised", err |-> KeyError("not found in axis", absent),
                       prepared_data |-> NoFrame, X |-> NoFrame, y |-> <<>>]
                 ELSE LET X == drop(prepared_data, {"TEMP", "DATE"})
                      IN  [outcome |-> "fit", err |-> NoError,
                           prepared_data |-> prepared_data,
                           X |-> IF "LOCATION" \in columns_of(X)
                                 THEN astype(X, "LOCATION", "category") ELSE X,
                           y |-> to_numpy(prepared_data, "TEMP")]

\* predict from the call of fit on, t being the training set.
fit_and_predict(self, t, booster) ==
    LET xgb_model == XGBRegressor_fit(t.X, t.y, booster)
        predicted == with_column(t.prepared_data, "PREDICTED_TEMP", "float32",
                                 xgb_predict(xgb_model, t.X))
        saved == retain(self, xgb_model, t.X)
        absent == Range(prediction_columns) \ columns_of(predicted)
    IN  IF absent # {}
        THEN [self |-> saved, outcome |-> "raised",
              err |-> KeyError("not in index", absent), ret |-> NoFrame]
        ELSE [self |-> saved, outcome |-> "returned", err |-> NoError,
              ret |-> select(predicted, prediction_columns)]

\* predict(self, input), booster being what the training learns.  The result
\* is the instance's attributes after the call and what the call returned or
\* raised.
predict(self, input, booster) ==
    CHOOSE r \in {IF t.outcome = "raised"
                  THEN [self |-> self, outcome |-> "raised", err |-> t.err,
                        ret |-> NoFrame]
                  ELSE fit_and_predict(self, t, booster) :
                      t \in {training_set(input)}} : TRUE

(***************************************************************************)
(* WeatherPredictor.calculate_global_shap                                  *)
(***************************************************************************)
\* shap.Explainer(xgb_model)(X).values: one row per row of X, one value per
\* feature, read off the trees.
shap_values(xgb_model, X) ==
    [i \in 1..Len(X.rows) |->
        [f \in columns_of(X) |->
            LET leaf == xgb_model.booster[f]
            IN  IF leaf.alt /\ X.rows[i]["HOUR_OF_DAY"] % 2 = 1
                THEN -leaf.mag ELSE leaf.mag]]

abs(v) == IF v < 0 THEN -v ELSE v

RECURSIVE column_sum(_, _, _)
column_sum(values, f, i) ==
    IF i > Len(values) THEN 0 ELSE values[i][f] + column_sum(values, f, i + 1)

\* A faulty variant, for comparison: the mean of the signed values.
mean_signed(values, f) == [num |-> column_sum(values, f, 1), den |-> Len(values)]

\* np.abs(values).mean(axis=0) at feature f, as the fraction num / den.
mean_abs(values, f) ==
    [num |-> column_sum([i \in 1..Len(values) |->
                            [g \in DOMAIN values[i] |-> abs(values[i][g])]], f, 1),
     den |-> Len(values)]

\* a < b for fractions with positive denominators.
less(a, b) == a.num * b.den < b.num * a.den

\* rows.sort_values(by='GLOBAL_SHAP', ascending=False), kind left at its
\* default 'quicksort', which is not a stable sort: rows of equal score come
\* out in an order the numpy build decides, the same at every call; ties is
\* that order, as a rank of each position.
sort_values_descending(rows, ties) ==
    LET n == Len(rows)
        order == CHOOSE p \in Permutations(1..n) :
                    \A i \in 1..(n - 1) :
                        \/ less(rows[p[i + 1]].GLOBAL_SHAP, rows[p[i]].GLOBAL_SHAP)
                        \/ /\ ~less(rows[p[i]].GLOBAL_SHAP, rows[p[i + 1]].GLOBAL_SHAP)
                           /\ ties[p[i]] < ties[p[i + 1]]
    IN  [i \in 1..n |-> rows[order[i]]]

NoReport == <<>>

\* calculate_global_shap(self): the report returned, or the error raised.
\* The explainer checks its values against the model's output with a maximum
\* over the rows, which numpy refuses to take over no rows.
calculate_global_shap(self, ties) ==
    IF ~hasattr(self, "xgb_model")
    THEN [outcome |-> "raised", ret |-> NoReport,
          err |-> ValueError("Model not trained. Run 'predict' first.")]
    ELSE IF Len(self["X"].rows) = 0
    THEN [outcome |-> "raised", ret |-> NoReport,
          err |-> ValueError("zero-size array to reduction operation maximum which has no identity")]
    ELSE LET values == shap_values(self["xgb_model"], self["X"])
             columns == self["X"].columns
             feature_importance ==
                 [j \in 1..Len(columns) |->
                     [FEATURE |-> columns[j],
                      GLOBAL_SHAP |-> mean_abs(values, columns[j])]]
         IN  [outcome |-> "returned", err |-> NoError,
              ret |-> sort_values_descending(feature_importance, ties)]

(***************************************************************************)
(* State: one WeatherPredictor instance and its caller                     *)
(***************************************************************************)
VARIABLES
    self,             \* the instance's attributes
    argsort_ties,     \* how this build's argsort orders equal keys
    caller_df,        \* the DataFrame the caller holds and passes
    passed,           \* its contents when the call was made
    last,             \* the last call: [op, outcome, err]
    result,           \* the frame prepare_data returned to that caller
    report,           \* the report the last call returned (NoReport: none)
    predict_returned, \* history: some predict call has returned
    first_report      \* history: the first report since predict last returned

vars == <<self, argsort_ties, caller_df, passed, last, result, report,
          predict_returned, first_report>>

NoCall == [op |-> "", outcome |-> "", err |-> NoError]

\* Largest number of feature columns: the input's columns but TEMP and DATE,
\* and TEMP_FFT.
MaxFeatures == Len(AllColumns) - 1

\* Every frame a caller may pass: any subset of the columns, TEMP numeric or
\* text, up to MaxRows rows.
Observations ==
    {DataFrame(present, temp_dtype, temps) :
        present \in SUBSET Range(AllColumns),
        temp_dtype \in {"float64", "object"},
        temps \in SeqsUpTo(0..MaxTemp, MaxRows)}

\* The frames of the partitions served: at most one column lacking, the
\* temperature rising by one an hour and wrapping after MaxTemp.
Partitions ==
    {DataFrame(present, temp_dtype, [i \in 1..n |-> (i - 1) % (MaxTemp + 1)]) :
        present \in {p \in SUBSET Range(AllColumns) :
                        Cardinality(p) >= Len(AllColumns) - 1},
        temp_dtype \in {"float64", "object"},
        n \in 0..MaxRows}

InitPredictor ==
    /\ self = NoAttributes
    /\ argsort_ties \in {[j \in 1..MaxFeatures |-> j],
                        [j \in 1..MaxFeatures |-> MaxFeatures + 1 - j]}
    /\ last = NoCall
    /\ result = NoFrame
    /\ report = NoReport
    /\ predict_returned = FALSE
    /\ first_report = NoReport

Init ==
    /\ InitPredictor
    /\ caller_df = NoFrame
    /\ passed = NoFrame

\* predictor.prepare_data(input)
PrepareData ==
    \E input \in Partitions :
        \E r \in {prepare_data(<<input>>, 1)} :
            /\ last' = [op |-> "prepare_data", outcome |-> r.outcome, err |-> r.err]
            /\ report' = NoReport
            /\ UNCHANGED <<self, argsort_ties, caller_df, passed, result>>

\* predictor.predict(input)
Predict ==
    \E input \in Partitions :
        \E booster \in Boosters(training_set(input).X) :
            \E r \in {predict(self, input, booster)} :
                /\ self' = r.self
                /\ last' = [op |-> "predict", outcome |-> r.outcome, err |-> r.err]
                /\ report' = NoReport
                /\ UNCHANGED <<argsort_ties, caller_df, passed, result>>

\* predictor.calculate_global_shap()
CalculateGlobalShap ==
    \E r \in {calculate_global_shap(self, argsort_ties)} :
        /\ last' = [op |-> "calculate_global_shap", outcome |-> r.outcome,
                    err |-> r.err]
        /\ report' = r.ret
        /\ UNCHANGED <<self, argsort_ties, caller_df, passed, result>>

Next ==
    \/ PrepareData /\ UNCHANGED <<predict_returned, first_report>>
    \/ Predict /\ UNCHANGED <<predict_returned, first_report>>
    \/ CalculateGlobalShap /\ UNCHANGED <<predict_returned, first_report>>

Spec == Init /\ [][Next]_vars

(***************************************************************************)
(* The same calls with the history the claims about earlier calls need     *)
(***************************************************************************)
\* The history variables after a call.
Record ==
    LET predict_returns == last'.op = "predict" /\ last'.outcome = "returned"
        report_returned == /\ last'.op = "calculate_global_shap"
                           /\ last'.outcome = "returned"
    IN  /\ predict_returned' = (predict_returned \/ predict_returns)
        /\ first_report' = IF predict_returns THEN NoReport
                           ELSE IF report_returned /\ first_report = NoReport
                           THEN report'
                           ELSE first_report

NextHistory ==
    \/ PrepareData /\ Record
    \/ Predict /\ Record
    \/ CalculateGlobalShap /\ Record

SpecHistory == Init /\ [][NextHistory]_vars

(***************************************************************************)
(* One prepare_data call on a frame the caller keeps                       *)
(***************************************************************************)
InitPrepare ==
    /\ InitPredictor
    /\ caller_df \in Observations
    /\ passed = NoFrame

\* predictor.prepare_data(caller_df)
CallPrepareData ==
    /\ last = NoCall
    /\ \E r \in {prepare_data(<<caller_df>>, 1)} :
           /\ caller_df' = r.heap[1]
           /\ passed' = caller_df
           /\ last' = [op |-> "prepare_data", outcome |-> r.outcome, err |-> r.err]
           /\ result' = IF r.outcome = "returned" THEN r.heap[r.ret] ELSE NoFrame
    /\ UNCHANGED <<self, argsort_ties, report, predict_returned, first_report>>

NextPrepare == CallPrepareData

SpecPrepare == InitPrepare /\ [][NextPrepare]_vars

(***************************************************************************)
(* The error taxonomy of the design, as the exceptions the code raises     *)
(***************************************************************************)
\* Required fields absent.
SchemaError(e) == e.cls = "KeyError" /\ e.msg = "Missing required columns"

\* Attribution requested before training.
NotTrainedError(e) ==
    e.cls = "ValueError" /\ e.msg = "Model not trained. Run 'predict' first."

\* Sequence too short for the transform.
InvalidInputError(e) ==
    e.cls = "ValueError" /\ e.msg = "invalid number of data points (0) specified"

\* A frame with the required fields, TEMP numeric.
ValidObservationSet(df) ==
    /\ {"TEMP", "HOUR_OF_DAY"} \subseteq columns_of(df)
    /\ df.dtypes["TEMP"] = "float64"

\* The magnitude of frequency bin k of the transform of x.
Magnitude(x, k) == np_abs(fft(x))[k + 1]

Position(seq, v) == CHOOSE j \in 1..Len(seq) : seq[j] = v

ReportReturned == last.op = "calculate_global_shap" /\ last.outcome = "returned"

(***************************************************************************)
(* Claims about prepare_data (SpecPrepare)                                 *)
(***************************************************************************)
\* C2: for a valid observation set of n >= 2 rows prepare_data returns n - 1
\* rows: row i of the result is row i + 1 of the input, unchanged, carrying in
\* addition the magnitude of frequency bin i of the transform (bin 0 being the
\* DC component, this is "bin i+1" counting from one).
PrepareDataDropsFirstRow ==
    (/\ last.op = "prepare_data"
     /\ ValidObservationSet(passed)
     /\ Len(passed.rows) >= 2)
    => /\ last.outcome = "returned"
       /\ Len(result.rows) = Len(passed.rows) - 1
       /\ \A i \in 1..Len(result.rows) :
            /\ DOMAIN result.rows[i] = DOMAIN passed.rows[i + 1] \cup {"TEMP_FFT"}
            /\ \A c \in DOMAIN passed.rows[i + 1] :
                  result.rows[i][c] = passed.rows[i + 1][c]
            /\ result.rows[i]["TEMP_FFT"] = Magnitude(to_numpy(passed, "TEMP"), i)

\* C2 witness: a call on three or more rows returned rows whose magnitudes differ.
PrepareDataDropsFirstRowWitness ==
    /\ last.op = "prepare_data"
    /\ last.outcome = "returned"
    /\ Len(passed.rows) >= 3
    /\ result.rows[1]["TEMP_FFT"] # result.rows[2]["TEMP_FFT"]

\* C3: after a prepare_data call, returned or raised, the caller's frame is
\* what it was when passed.
PrepareDataLeavesInput ==
    last.op = "prepare_data" => caller_df = passed

\* C3 witness: a call returned a frame that differs from the one passed.
PrepareDataLeavesInputWitness ==
    /\ last.op = "prepare_data"
    /\ last.outcome = "returned"
    /\ Len(passed.rows) >= 2
    /\ result # passed

\* C4: a frame lacking TEMP or HOUR_OF_DAY is refused with the schema error
\* naming exactly the lacking fields, whatever the dtype of TEMP and the
\* number of rows.
MissingFieldsNamed ==
    (/\ last.op = "prepare_data"
     /\ ~({"TEMP", "HOUR_OF_DAY"} \subseteq columns_of(passed)))
    => /\ last.outcome = "raised"
       /\ SchemaError(last.err)
       /\ last.err.names = {"TEMP", "HOUR_OF_DAY"} \ columns_of(passed)

\* C4 witness: HOUR_OF_DAY alone is lacking, TEMP is text, and the error names
\* HOUR_OF_DAY alone.
MissingFieldsNamedWitness ==
    /\ last.op = "prepare_data"
    /\ "TEMP" \in columns_of(passed)
    /\ passed.dtypes["TEMP"] = "object"
    /\ "HOUR_OF_DAY" \notin columns_of(passed)
    /\ last.err.names = {"HOUR_OF_DAY"}

\* C5: a valid observation set of one row is refused with InvalidInputError.
SingleRowRefused ==
    (/\ last.op = "prepare_data"
     /\ ValidObservationSet(passed)
     /\ Len(passed.rows) = 1)
    => last.outcome = "raised" /\ InvalidInputError(last.err)

(***************************************************************************)
(* Claims about the predictor's calls (Spec, SpecHistory)                  *)
(***************************************************************************)
\* C1: while no predict call has returned, calculate_global_shap raises the
\* not-trained error and returns no report.
NotTrainedBeforePredictReturns ==
    (last.op = "calculate_global_shap" /\ ~predict_returned)
    => /\ last.outcome = "raised"
       /\ NotTrainedError(last.err)
       /\ report = NoReport

TiesInColumnOrder ==
    ReportReturned
    => \A i, j \in 1..Len(report) :
          (/\ i < j
           /\ ~less(report[i].GLOBAL_SHAP, report[j].GLOBAL_SHAP)
           /\ ~less(report[j].GLOBAL_SHAP, report[i].GLOBAL_SHAP))
          => Position(self["X"].columns, report[i].FEATURE)
                < Position(self["X"].columns, report[j].FEATURE)

\* C8: once predict has returned, every report returned before predict
\* returns again is the first of them.
ReportsRepeat ==
    (predict_returned /\ ReportReturned) => report = first_report

\* C9: a predict call that raises leaves the instance's attributes as they
\* were.
FailedPredictKeepsState ==
    [][(last'.op = "predict" /\ last'.outcome = "raised") => self' = self]_vars

\* The instance retains nothing, or a model and the matrix it was fitted on.
RetainedPair ==
    \/ DOMAIN self = {}
    \/ /\ DOMAIN self = {"xgb_model", "X"}
       /\ self["xgb_model"].fit_X = self["X"]

\* C10: the instance retains nothing or a model together with the matrix that
\* model was fitted on, and only predict changes what is retained.
RetainedPairOnlyByPredict ==
    /\ []RetainedPair
    /\ [][self' # self => last'.op = "predict"]_vars

\* C10 witness: a model and the matrix of two or more rows it was fitted on
\* are retained, and a calculate_global_shap call has returned since.
RetainedPairOnlyByPredictWitness ==
    /\ ReportReturned
    /\ DOMAIN self = {"xgb_model", "X"}
    /\ "LOCATION" \in columns_of(self["X"])
    /\ Len(self["X"].rows) >= 2

====
